---- MODULE Spec2Model ----
(***************************************************************************)
(* A model of nsv (src/src/main.rs): a static file server that serves the  *)
(* files below the directory it is started in.  The model covers main's    *)
(* danger-zone guard and accept loop, handle_request gate by gate, the     *)
(* helpers decode_path, is_dangerous_dir, home_dir and log_download, the   *)
(* parts of std::path and std::fs the handler calls (join, canonicalize,   *)
(* starts_with, is_dir, file_name, metadata, File::open) and a filesystem  *)
(* that other processes change while requests are in flight.               *)
(*                                                                         *)
(* Text is a sequence of characters, each a one-character string; the few  *)
(* characters that have no one-character spelling are written as tokens.   *)
(***************************************************************************)
EXTENDS Integers, Sequences, FiniteSets, TLC

VARIABLES
    fs,        \* the filesystem: absolute path -> node
    env,       \* the process environment: [HOME, USERPROFILE], a text or Unset
    force,     \* main's `force` after argument parsing
    cwd,       \* the text env::current_dir() returns
    mainpc,    \* where main is: "start", "bind", "serving", "exited"
    exitCode,  \* the process exit status once mainpc = "exited", else -1
    base_dir,  \* main's base_dir (a path), NoPath before it is computed
    accepted,  \* the number of requests the accept loop has taken so far
    h,         \* the handler threads: thread id -> handler record (the
               \* request, the locals of handle_request, what the client got)
    stdout     \* the access log lines printed so far

vars == <<fs, env, force, cwd, mainpc, exitCode, base_dir, accepted, h, stdout>>

----------------------------------------------------------------------------
(* Bounds of the model. *)

\* The most `/`-separated segments a generated request path has.
MaxSegs == 2
\* The most symbolic links one canonicalization follows before it fails (ELOOP).
MaxLinkHops == 2
\* The most requests the accept loop takes in one run.
MaxRequests == 1

----------------------------------------------------------------------------
(* Characters and text. *)

NUL == "U+0000"        \* the NUL character
REPL == "U+FFFD"       \* the Unicode replacement character
EACUTE == "U+00E9"     \* a non-ASCII letter, for a file name that is not ASCII
RAWBYTE == "0xFF"      \* a byte that is no UTF-8, for a file name that is no Unicode
OtherAscii == "U+xxxx" \* any ASCII character the model's paths never use

Contains(t, c) == \E i \in 1..Len(t) : t[i] = c

IsPrefix(s, t) == Len(s) <= Len(t) /\ SubSeq(t, 1, Len(s)) = s

\* The ASCII codes of the characters the model's texts are made of.
CharCode ==
    [c \in {NUL, "%", ".", "/", "?", "0", "2", "5", "E", "F", "b", "d", "p", "q",
           "s"} |->
        CASE c = NUL -> 0   [] c = "%" -> 37  [] c = "." -> 46  [] c = "/" -> 47
          [] c = "?" -> 63  [] c = "0" -> 48  [] c = "2" -> 50  [] c = "5" -> 53
          [] c = "E" -> 69  [] c = "F" -> 70  [] c = "b" -> 98  [] c = "d" -> 100
          [] c = "p" -> 112 [] c = "q" -> 113 [] c = "s" -> 115]

\* The value of a hexadecimal digit, -1 for any other character.
HexVal(c) ==
    CASE c = "0" -> 0  [] c = "2" -> 2  [] c = "5" -> 5
      [] c = "E" -> 14 [] c = "F" -> 15 [] c = "b" -> 11 [] c = "d" -> 13
      [] OTHER -> -1

\* String::from_utf8_lossy on one decoded byte.  The hexadecimal digits of the
\* model's texts spell no UTF-8 continuation byte (0x80..0xBF), so a byte of
\* 0x80 or more is never part of a valid sequence and becomes U+FFFD.
ByteChar(n) ==
    IF n >= 128 THEN REPL
    ELSE IF \E c \in DOMAIN CharCode : CharCode[c] = n
         THEN CHOOSE c \in DOMAIN CharCode : CharCode[c] = n
         ELSE OtherAscii

\* percent_decode_str(input).decode_utf8_lossy(): `%` followed by two
\* hexadecimal digits is one byte, any other character stands for itself.
RECURSIVE PercentDecode(_)
PercentDecode(t) ==
    IF t = <<>> THEN <<>>
    ELSE IF t[1] = "%" /\ Len(t) >= 3 /\ HexVal(t[2]) >= 0 /\ HexVal(t[3]) >= 0
         THEN <<ByteChar(16 * HexVal(t[2]) + HexVal(t[3]))>>
                 \o PercentDecode(SubSeq(t, 4, Len(t)))
         ELSE <<t[1]>> \o PercentDecode(Tail(t))

\* decode_path decoding what it has decoded once more, to show what rests on
\* line 160 decoding once.
decode_path_twice(input) ==
    IF Contains(input, "%") THEN PercentDecode(PercentDecode(input)) ELSE input

\* decode_path
decode_path(input) ==
    IF Contains(input, "%") THEN PercentDecode(input) ELSE input

----------------------------------------------------------------------------
(* Paths: a path is the sequence of its normal components below the root,  *)
(* each component a text; the root is the empty sequence.                  *)

Root == <<>>
NoPath == <<<<"?">>>>     \* no path: `?` is no component of any path here

\* The text of a path, as Path::display prints it.
RECURSIVE Render(_)
Render(p) ==
    IF p = Root THEN <<"/">>
    ELSE IF Len(p) = 1 THEN <<"/">> \o p[1]
    ELSE Render(SubSeq(p, 1, Len(p) - 1)) \o <<"/">> \o p[Len(p)]

\* The texts between the `/` of a text ("/a//b/" gives "", "a", "", "b", "").
RECURSIVE Split(_, _)
Split(t, cur) ==
    IF t = <<>> THEN <<cur>>
    ELSE IF t[1] = "/" THEN <<cur>> \o Split(Tail(t), <<>>)
    ELSE Split(Tail(t), Append(cur, t[1]))

Parent(p) == IF p = Root THEN Root ELSE SubSeq(p, 1, Len(p) - 1)

\* The components of a text resolved by the text alone: `..` drops the
\* component before it, whatever that names.
RECURSIVE Lexical(_, _)
Lexical(comps, acc) ==
    IF comps = <<>> THEN acc
    ELSE IF Head(comps) = <<>> \/ Head(comps) = <<".">> THEN Lexical(Tail(comps), acc)
    ELSE IF Head(comps) = <<".", ".">> THEN Lexical(Tail(comps), Parent(acc))
    ELSE Lexical(Tail(comps), Append(acc, Head(comps)))

----------------------------------------------------------------------------
(* The filesystem.  A node is nothing, a directory, a regular file with    *)
(* its bytes, or a symbolic link with the text of its (absolute) target.   *)

NoNode == [kind |-> "none", target |-> <<>>, data |-> <<>>]
Dir == [kind |-> "dir", target |-> <<>>, data |-> <<>>]
File(bytes) == [kind |-> "file", target |-> <<>>, data |-> bytes]
Link(text) == [kind |-> "link", target |-> text, data |-> <<>>]

\* The places of the modelled filesystem: /, /b, /b2, /b/p, /b/d, /b/d/p,
\* /b/<e-acute>, /b/<0xFF>, /b2/p and /s.
PB == << <<"b">> >>
PB2 == << <<"b", "2">> >>
PBp == << <<"b">>, <<"p">> >>
PBd == << <<"b">>, <<"d">> >>
PBdp == << <<"b">>, <<"d">>, <<"p">> >>
PBe == << <<"b">>, <<EACUTE>> >>
PBx == << <<"b">>, <<RAWBYTE>> >>
PB2p == << <<"b", "2">>, <<"p">> >>
PS == << <<"s">> >>

Slots == {Root, PB, PB2, PBp, PBd, PBdp, PBe, PBx, PB2p, PS}

\* What other processes may put at each place.  /, /b and /b2 stay
\* directories, /b/<e-acute>, /b/<0xFF> and /s stay files; the rest comes
\* and goes.
Options(slot) ==
    CASE slot = PBp -> {NoNode, File(<<1, 1>>), Link(Render(PBdp)), Link(Render(PBe)),
                        Link(Render(PBx))}
      [] slot = PBd -> {NoNode, Dir, Link(Render(PB2)), Link(Render(PBp))}
      [] slot = PBdp -> {NoNode, File(<<4>>)}
      [] slot = PB2p -> {NoNode, File(<<9, 9, 9>>)}
      [] slot = PBe -> {File(<<3, 3, 3>>)}
      [] slot = PBx -> {File(<<5>>)}
      [] slot = PS -> {File(<<7>>)}
      [] OTHER -> {Dir}

\* The filesystem the server is started in.
InitialFs ==
    [s \in Slots |->
        CASE s \in {Root, PB, PB2, PBd} -> Dir
          [] s = PBp -> File(<<1, 1>>)
          [] s = PBdp -> File(<<4>>)
          [] s = PBe -> File(<<3, 3, 3>>)
          [] s = PBx -> File(<<5>>)
          [] s = PS -> File(<<7>>)
          [] s = PB2p -> File(<<9, 9, 9>>)]

\* Every node but the root sits in a directory.
WellFormed(f) ==
    \A s \in Slots \ {Root} : f[s].kind # "none" => f[Parent(s)].kind = "dir"

\* The filesystem after another process has replaced the node at `slot` (a
\* rename, an unlink, a create): what was below a directory goes with it.
Replace(f, slot, node) ==
    [s \in Slots |->
        IF s = slot THEN node
        ELSE IF node.kind # "dir" /\ s # slot /\ IsPrefix(slot, s) THEN NoNode
        ELSE f[s]]

Ok(p) == [ok |-> TRUE, path |-> p]
Err == [ok |-> FALSE, path |-> NoPath]

\* realpath(3) from the resolved directory `cur` over the remaining
\* components: `.` and empty components stay, `..` goes to the physical
\* parent, a symbolic link restarts at its target with one hop less.  A
\* missing name (ENOENT), a component below something that is no directory
\* (ENOTDIR, also for a trailing `/`) and too many links (ELOOP) are errors.
RECURSIVE Walk(_, _, _, _)
Walk(f, cur, comps, hops) ==
    IF comps = <<>> THEN Ok(cur)
    ELSE IF f[cur].kind # "dir" THEN Err
    ELSE LET c == Head(comps)
             rest == Tail(comps)
             child == Append(cur, c)
         IN  IF c = <<>> \/ c = <<".">> THEN Walk(f, cur, rest, hops)
             ELSE IF c = <<".", ".">> THEN Walk(f, Parent(cur), rest, hops)
             ELSE IF child \notin Slots \/ f[child].kind = "none" THEN Err
             ELSE IF f[child].kind = "link"
                  THEN IF hops = 0 THEN Err
                       ELSE Walk(f, Root, Split(f[child].target, <<>>) \o rest,
                                 hops - 1)
                  ELSE Walk(f, child, rest, hops)

\* Path::canonicalize on the text of an absolute path.  A text with a NUL is
\* no C string: the call fails before it reaches the filesystem.
Canonicalize(f, t) ==
    IF t = <<>> \/ t[1] # "/" \/ Contains(t, NUL) THEN Err
    ELSE Walk(f, Root, Split(t, <<>>), MaxLinkHops)

\* The node a system call that follows symbolic links (stat, open) finds at
\* the path p, with the place it really is at.
Lookup(f, p) ==
    LET r == Canonicalize(f, Render(p))
    IN  IF r.ok THEN [found |-> TRUE, loc |-> r.path, node |-> f[r.path]]
        ELSE [found |-> FALSE, loc |-> NoPath, node |-> NoNode]

\* PathBuf::join: an absolute `rel` replaces the base, anything else is
\* appended to it after a `/`.
Join(base, rel) ==
    IF rel # <<>> /\ rel[1] = "/" THEN rel
    ELSE IF base = Root THEN <<"/">> \o rel
    ELSE Render(base) \o <<"/">> \o rel

\* Path::starts_with: whole components, not characters.
StartsWithBytes(p, base) == IsPrefix(Render(base), Render(p))
StartsWith(p, base) == IsPrefix(base, p)

\* Path::file_name: the last component.  A canonical path ends in a normal
\* component unless it is the root, which has no file name.
FileName(p) == IF p = Root THEN <<>> ELSE p[Len(p)]

----------------------------------------------------------------------------
(* Requests and responses. *)

Unset == <<"unset">>      \* an environment variable, or a peer address, that is absent

NoFile == [loc |-> NoPath, kind |-> "none", data |-> <<>>]
NoResponse ==
    [status |-> 0, body |-> <<>>, disposition |-> <<>>, contentLength |-> -1,
     source |-> NoPath]

\* Response::empty(StatusCode(status))
EmptyResponse(status) == [NoResponse EXCEPT !.status = status]

\* A handler thread that is not running.  `connected` tells whether the
\* request's client is still there, `sent` what became of the response:
\* "none" (not sent yet), "ok" (the client has it) or "err" (the send failed).
Idle ==
    [pc |-> "idle", base |-> NoPath, method |-> "", url |-> <<>>, remote |-> <<>>,
     rel |-> <<>>, candidate |-> NoPath, disposition |-> <<>>, len |-> -1, file |-> NoFile,
     resp |-> NoResponse, trace |-> <<>>, connected |-> TRUE, sent |-> "none"]

\* The thread given the directory above base_dir, to show what rests on the
\* clone of line 62.
SpawnedInParent(base, method, url, peer) ==
    [Idle EXCEPT !.pc = "method", !.base = Parent(base), !.method = method,
                 !.url = url, !.remote = peer]

\* thread::spawn(move || handle_request(base_dir, request)): the thread at
\* the top of handle_request.
Spawned(base, method, url, peer) ==
    [Idle EXCEPT !.pc = "method", !.base = base, !.method = method, !.url = url,
                 !.remote = peer]

\* A respond that is called again when its send has failed, to show what
\* rests on the `let _ =` of lines 72-155.
RespondedWithRetry(r, response) ==
    [r EXCEPT !.pc = "done", !.resp = response,
              !.trace = IF r.connected THEN Append(@, "respond")
                        ELSE @ \o <<"respond", "respond">>,
              !.sent = IF r.connected THEN "ok" ELSE "err"]

\* `let _ = request.respond(response);` followed by return: the send fails
\* when the client is gone, and its Err is dropped.
Responded(r, response) ==
    [r EXCEPT !.pc = "done", !.resp = response, !.trace = Append(@, "respond"),
              !.sent = IF r.connected THEN "ok" ELSE "err"]

\* url.split('?').next(): the text before the first `?`.
RECURSIVE UrlPath(_)
UrlPath(url) ==
    IF url = <<>> \/ url[1] = "?" THEN <<>>
    ELSE <<url[1]>> \o UrlPath(Tail(url))

\* str::trim_start_matches('/')
RECURSIVE TrimStart(_)
TrimStart(t) == IF t # <<>> /\ t[1] = "/" THEN TrimStart(Tail(t)) ELSE t

EndsWithSlash(t) == t # <<>> /\ t[Len(t)] = "/"

\* OsStr::to_str succeeds: the text is valid Unicode.
IsUnicode(t) == \A i \in 1..Len(t) : t[i] # RAWBYTE

IsAscii(t) == \A i \in 1..Len(t) : t[i] \notin {EACUTE, REPL, RAWBYTE}

\* Lines 118-125: the Content-Disposition value.  The file name is the last
\* component of the canonical path, "download" when there is none or when
\* it is no Unicode; a value that is not ASCII is no header value and the
\* bare "attachment" stands in.
Disposition(candidate) ==
    LET name == IF FileName(candidate) = <<>> \/ ~IsUnicode(FileName(candidate))
                THEN <<"download">>
                ELSE FileName(candidate)
    IN  IF IsAscii(name) THEN <<"attachment; filename=", "\"">> \o name \o <<"\"">>
        ELSE <<"attachment">>

----------------------------------------------------------------------------
(* handle_request, gate by gate.  Each operator takes the handler's record *)
(* at the gate (and the filesystem and base directory it reads) and gives  *)
(* the record after it.                                                    *)

\* The method gate without its test, to show what rests on lines 71-74.
MethodCheckLax(r) == [r EXCEPT !.pc = "shape"]

\* Lines 70-74.
MethodCheck(r) ==
    IF r.method # "GET" /\ r.method # "HEAD" THEN Responded(r, EmptyResponse(405))
    ELSE [r EXCEPT !.pc = "shape"]

\* Lines 76-92.
PathShapeCheckNoSlash(r) ==
    LET remote == IF r.remote = Unset THEN <<"unknown">> ELSE r.remote
        rel == TrimStart(UrlPath(r.url))
    IN  IF rel = <<>> THEN Responded(r, EmptyResponse(403))
        ELSE [r EXCEPT !.pc = "decode", !.remote = remote, !.rel = rel]
PathShapeCheck(r) ==
    LET remote == IF r.remote = Unset THEN <<"unknown">> ELSE r.remote
        path == UrlPath(r.url)
        rel == TrimStart(path)
    IN  IF path = <<"/">> \/ EndsWithSlash(path) THEN Responded(r, EmptyResponse(403))
        ELSE IF rel = <<>> THEN Responded(r, EmptyResponse(403))
        ELSE [r EXCEPT !.pc = "decode", !.remote = remote, !.rel = rel]

\* Lines 94-98.
DecodeNoNul(r) == [r EXCEPT !.pc = "resolve", !.rel = decode_path(r.rel)]
Decode(r) ==
    LET rel == decode_path(r.rel)
    IN  IF Contains(rel, NUL) THEN Responded(r, EmptyResponse(400))
        ELSE [r EXCEPT !.pc = "resolve", !.rel = rel]

\* Lines 100-107.
SandboxResolveLexical(f, r) ==
    LET t == Join(r.base, r.rel)
        c == IF Canonicalize(f, t).ok THEN Ok(Lexical(Split(t, <<>>), Root)) ELSE Err
        r1 == [r EXCEPT !.trace = Append(@, "canonicalize")]
    IN  IF ~c.ok THEN Responded(r1, EmptyResponse(404))
        ELSE [r1 EXCEPT !.pc = "prefix", !.candidate = c.path]
SandboxResolve(f, r) ==
    LET c == Canonicalize(f, Join(r.base, r.rel))
        r1 == [r EXCEPT !.trace = Append(@, "canonicalize")]
    IN  IF ~c.ok THEN Responded(r1, EmptyResponse(404))
        ELSE [r1 EXCEPT !.pc = "prefix", !.candidate = c.path]

\* Lines 109-112.
PrefixCheckSkipped(r) == [r EXCEPT !.pc = "isdir"]
PrefixCheck(r) ==
    IF ~StartsWith(r.candidate, r.base) THEN Responded(r, EmptyResponse(403))
    ELSE [r EXCEPT !.pc = "isdir"]

\* Lines 113-116.  Path::is_dir is false when the path cannot be stat'd.
DirectoryCheck(f, r) ==
    LET r1 == [r EXCEPT !.trace = Append(@, "is_dir")]
    IN  IF Lookup(f, r.candidate).node.kind = "dir"
        THEN Responded(r1, EmptyResponse(403))
        ELSE [r1 EXCEPT !.pc = "header"]

\* Lines 118-127.
BuildHeaderFromRequest(r) ==
    [r EXCEPT !.disposition = <<"attachment; filename=", "\"">> \o r.rel \o <<"\"">>,
              !.pc = IF r.method = "HEAD" THEN "head" ELSE "get"]
BuildHeader(r) ==
    [r EXCEPT !.disposition = Disposition(r.candidate),
              !.pc = IF r.method = "HEAD" THEN "head" ELSE "get"]

\* Lines 128-134.  metadata follows symbolic links; its len() is the size of
\* whatever the path names now (a directory counts as empty here).
HeadStat(f, r) ==
    LET m == Lookup(f, r.candidate)
        r1 == [r EXCEPT !.trace = Append(@, "metadata")]
    IN  IF ~m.found THEN Responded(r1, EmptyResponse(404))
        ELSE [r1 EXCEPT !.pc = "log", !.len = Len(m.node.data),
                        !.file = [loc |-> m.loc, kind |-> m.node.kind, data |-> <<>>]]

\* Lines 146-152.  File::open follows symbolic links and opens whatever the
\* path names now; the open file keeps its bytes when the name is replaced.
\* Opening a directory read-only succeeds; reading it yields no bytes.
GetOpen(f, r) ==
    LET m == Lookup(f, r.candidate)
        r1 == [r EXCEPT !.trace = Append(@, "open")]
    IN  IF ~m.found THEN Responded(r1, EmptyResponse(404))
        ELSE [r1 EXCEPT !.pc = "log",
                        !.file = [loc |-> m.loc, kind |-> m.node.kind,
                                  data |-> m.node.data]]

\* The log line with the path of the request in the place of the resolved
\* one, to show what rests on line 153 passing `candidate`.
LogLineRawPath(r) == [ip |-> r.remote, file |-> UrlPath(r.url)]

\* Lines 190-193: the line log_download prints (without its timestamp).
LogLine(r) == [ip |-> r.remote, file |-> Render(r.candidate)]

\* Lines 135 and 153.
LogDownload(r) == [r EXCEPT !.pc = "respond", !.trace = Append(@, "log")]

\* Lines 136-143 (HEAD) and 154-155 (GET).
RespondNoLength(r) ==
    Responded(r, [status |-> 200, body |-> IF r.method = "HEAD" THEN <<>> ELSE r.file.data,
                  disposition |-> r.disposition, contentLength |-> -1,
                  source |-> r.file.loc])
Respond(r) ==
    IF r.method = "HEAD"
    THEN Responded(r, [status |-> 200, body |-> <<>>, disposition |-> r.disposition,
                       contentLength |-> r.len, source |-> r.file.loc])
    ELSE Responded(r, [status |-> 200, body |-> r.file.data,
                       disposition |-> r.disposition, contentLength |-> -1,
                       source |-> r.file.loc])

\* Line 192 when the write to standard output fails: println! panics, the
\* thread unwinds out of handle_request before it reaches line 142 or 155,
\* and `request` is dropped unanswered.  What the client then gets is the
\* HTTP library's doing, `left`: its own 500, or nothing at all.
Panicked(r, left) ==
    [r EXCEPT !.pc = "done", !.resp = left, !.trace = Append(@, "panic"),
              !.sent = IF left = NoResponse THEN "none"
                       ELSE IF r.connected THEN "ok" ELSE "err"]

\* The steps with the path-shape test of lines 83-92 ahead of the method
\* test of lines 71-74, to show what rests on their order.
StepShapeFirst(f, r) ==
    CASE r.pc = "method" -> IF PathShapeCheck(r).pc = "done" THEN PathShapeCheck(r)
                            ELSE MethodCheck(r)
      [] r.pc = "shape" -> PathShapeCheck(r)
      [] r.pc = "decode" -> Decode(r)
      [] r.pc = "resolve" -> SandboxResolve(f, r)
      [] r.pc = "prefix" -> PrefixCheck(r)
      [] r.pc = "isdir" -> DirectoryCheck(f, r)
      [] r.pc = "header" -> BuildHeader(r)
      [] r.pc = "head" -> HeadStat(f, r)
      [] r.pc = "get" -> GetOpen(f, r)
      [] r.pc = "log" -> LogDownload(r)
      [] r.pc = "respond" -> Respond(r)
      [] OTHER -> r

\* One step of handle_request on the filesystem f.
Step(f, r) ==
    CASE r.pc = "method" -> MethodCheck(r)
      [] r.pc = "shape" -> PathShapeCheck(r)
      [] r.pc = "decode" -> Decode(r)
      [] r.pc = "resolve" -> SandboxResolve(f, r)
      [] r.pc = "prefix" -> PrefixCheck(r)
      [] r.pc = "isdir" -> DirectoryCheck(f, r)
      [] r.pc = "header" -> BuildHeader(r)
      [] r.pc = "head" -> HeadStat(f, r)
      [] r.pc = "get" -> GetOpen(f, r)
      [] r.pc = "log" -> LogDownload(r)
      [] r.pc = "respond" -> Respond(r)
      [] OTHER -> r

\* handle_request from r to its end on a filesystem nothing else touches.
RECURSIVE RunFrom(_, _)
RunFrom(f, r) ==
    IF r.pc \in {"done", "idle"} THEN r ELSE RunFrom(f, Step(f, r))

\* handle_request(base, request) as a function of the filesystem.
handle_request(f, base, method, url, peer) ==
    RunFrom(f, Spawned(base, method, url, peer))

----------------------------------------------------------------------------
(* main: the danger-zone guard. *)

\* PathBuf::from(text), as Path's == sees it: whether it is absolute, and
\* its components, without the empty ones and the `.` ones.
RECURSIVE NormalComponents(_)
NormalComponents(cs) ==
    IF cs = <<>> THEN <<>>
    ELSE IF Head(cs) = <<>> \/ Head(cs) = <<".">> THEN NormalComponents(Tail(cs))
    ELSE <<Head(cs)>> \o NormalComponents(Tail(cs))

PathBufFrom(t) ==
    [abs |-> t # <<>> /\ t[1] = "/", comps |-> NormalComponents(Split(t, <<>>))]

\* home_dir: HOME if it is set (whatever it holds), else USERPROFILE.
home_dir(e) ==
    IF e.HOME # Unset THEN e.HOME
    ELSE IF e.USERPROFILE # Unset THEN e.USERPROFILE
    ELSE Unset

\* is_dangerous_dir on a canonical path.
IsDangerousHomeOnly(path, e) ==
    /\ home_dir(e) # Unset
    /\ PathBufFrom(home_dir(e)) = [abs |-> TRUE, comps |-> path]
is_dangerous_dir(path, e) ==
    \/ path = Root
    \/ /\ home_dir(e) # Unset
       /\ PathBufFrom(home_dir(e)) = [abs |-> TRUE, comps |-> path]

----------------------------------------------------------------------------
(* The inputs of a run. *)

\* The handler threads of line 62; every handler action takes its thread
\* from the domain of h.
Threads == {1}

Methods == {"GET", "HEAD", "POST", "DELETE"}

Peer == <<"198.51.100.7:4000">>

\* The segments request paths are made of.
Segs ==
    { <<"p">>, <<"d">>, <<"s">>, <<".", ".">>,
      <<"%", "0", "0">>, <<"%", "2", "F", "b", "2">>, <<"d", "%", "2", "F">> }

\* The paths of 1..n segments, each with a leading `/`.
RECURSIVE SegPaths(_)
SegPaths(n) ==
    IF n = 0 THEN {<<>>}
    ELSE {<<>>} \cup {q \o <<"/">> \o s : q \in SegPaths(n - 1), s \in Segs}

\* The request URLs: the segment paths, the same with a trailing `/` or a
\* query, and the paths that are empty or all slashes.
Urls ==
    LET plain == SegPaths(MaxSegs) \ {<<>>}
        short == SegPaths(1) \ {<<>>}
    IN  plain \cup {u \o <<"/">> : u \in short}
              \cup {u \o <<"?", "q">> : u \in short}
              \cup {u \o <<"?", "/">> : u \in short}
              \cup {<<"/">> \o u : u \in short}
              \cup {<<>>, <<"/">>, <<"/", "/">>, <<"?", "p">>, <<"/", "?", "p">>}

\* The handler threads of the runs with requests in flight together.
LoadThreads == {1, 2}

\* The requests of those runs: a file, a directory, a file in it, and paths
\* with escapes that are valid (%00, %2F), encoded twice (%2500), no UTF-8
\* (%FF), cut short (%2, %) or no hexadecimal (%qq).
LoadUrls ==
    { <<"/", "p">>, <<"/", "d">>, <<"/", "d", "%", "2", "F", "p">>,
      <<"/", "%", "0", "0">>, <<"/", "%", "2", "5", "0", "0">>,
      <<"/", "%", "F", "F">>, <<"/", "p", "%", "2">>, <<"/", "p", "%">>,
      <<"/", "%", "q", "q">> }

\* The requests of the runs that look at progress.
LiveUrls == { <<"/", "p">>, <<"/", "d">>, <<"/", ".", ".", "/", "s">> }

\* A few requests for the runs that vary the start of the server.
BootUrls ==
    { <<"/", "p">>, <<"/", "d", "/", "p">>, <<"/", "b", "/", "p">>,
      <<"/", ".", ".", "/", "s">> }

Environments ==
    [HOME : {Unset, <<>>, Render(PB), Render(PB) \o <<"/">>, Render(PB2)},
     USERPROFILE : {Unset, Render(PB)}]

WorkDirs == {Render(Root), Render(PB), Render(PB2)}

----------------------------------------------------------------------------
(* The state machine. *)

Started(envs, dirs, threads) ==
    /\ fs = InitialFs
    /\ env \in envs
    /\ force \in BOOLEAN
    /\ cwd \in dirs
    /\ mainpc = "start"
    /\ exitCode = -1
    /\ base_dir = NoPath
    /\ accepted = 0
    /\ h = [t \in threads |-> Idle]
    /\ stdout = <<>>

\* Lines 38-39: base_dir is the canonical current directory; main returns
\* the error (exit status 1) when it cannot be had.
Startup ==
    /\ mainpc = "start"
    /\ LET c == Canonicalize(fs, cwd)
       IN  IF c.ok THEN /\ base_dir' = c.path
                        /\ mainpc' = "guard"
                        /\ exitCode' = exitCode
           ELSE /\ base_dir' = base_dir
                /\ mainpc' = "exited"
                /\ exitCode' = 1
    /\ UNCHANGED <<fs, env, force, cwd, accepted, h, stdout>>

\* Lines 41-48: the guard refuses, std::process::exit(1).
GuardRefuse ==
    /\ mainpc = "guard"
    /\ ~force /\ is_dangerous_dir(base_dir, env)
    /\ mainpc' = "exited"
    /\ exitCode' = 1
    /\ UNCHANGED <<fs, env, force, cwd, base_dir, accepted, h, stdout>>

\* Lines 41-48: the guard lets main go on.
GuardPass ==
    /\ mainpc = "guard"
    /\ ~(~force /\ is_dangerous_dir(base_dir, env))
    /\ mainpc' = "bind"
    /\ UNCHANGED <<fs, env, force, cwd, exitCode, base_dir, accepted, h, stdout>>

\* Lines 50-59: the socket is bound and main enters its accept loop.
BindOk ==
    /\ mainpc = "bind"
    /\ mainpc' = "serving"
    /\ UNCHANGED <<fs, env, force, cwd, exitCode, base_dir, accepted, h, stdout>>

\* Line 52: Server::http fails (the port is taken) and main returns the error.
BindFail ==
    /\ mainpc = "bind"
    /\ mainpc' = "exited"
    /\ exitCode' = 1
    /\ UNCHANGED <<fs, env, force, cwd, base_dir, accepted, h, stdout>>

\* Lines 54-56: the interrupt handler ends the process, its threads with it.
Interrupt ==
    /\ mainpc = "serving"
    /\ mainpc' = "exited"
    /\ exitCode' = 0
    /\ h' = [t \in DOMAIN h |-> Idle]
    /\ UNCHANGED <<fs, env, force, cwd, base_dir, accepted, stdout>>

\* The accept loop calling handle_request itself, with no thread of its own
\* for the request: it takes the next request when the one before has
\* returned.  To show what rests on the thread::spawn of line 63.
AcceptInline(urls, peers, cap) ==
    /\ mainpc = "serving"
    /\ accepted < cap
    /\ \A t \in DOMAIN h : h[t].pc = "idle"
    /\ \E t \in DOMAIN h, m \in Methods, u \in urls, peer \in peers :
          h' = [h EXCEPT ![t] = Spawned(base_dir, m, u, peer)]
    /\ accepted' = accepted + 1
    /\ UNCHANGED <<fs, env, force, cwd, mainpc, exitCode, base_dir, stdout>>

\* Lines 61-64: the accept loop takes a request and spawns its handler with
\* a clone of base_dir, whatever the handlers before it are doing; a run has
\* `cap` requests at most.
Accept(urls, peers, cap) ==
    /\ mainpc = "serving"
    /\ accepted < cap
    /\ \E t \in DOMAIN h, m \in Methods, u \in urls, peer \in peers :
          /\ h[t].pc = "idle"
          /\ h' = [h EXCEPT ![t] = Spawned(base_dir, m, u, peer)]
    /\ accepted' = accepted + 1
    /\ UNCHANGED <<fs, env, force, cwd, mainpc, exitCode, base_dir, stdout>>

\* A handler thread takes the step at gate `pc`.
Gate(t, pc) ==
    /\ mainpc = "serving"
    /\ h[t].pc = pc
    /\ h' = [h EXCEPT ![t] = Step(fs, h[t])]
    /\ UNCHANGED <<fs, env, force, cwd, mainpc, exitCode, base_dir, accepted>>

DoMethodCheck(t) == Gate(t, "method") /\ UNCHANGED stdout
DoPathShapeCheck(t) == Gate(t, "shape") /\ UNCHANGED stdout
DoDecode(t) == Gate(t, "decode") /\ UNCHANGED stdout
DoSandboxResolve(t) == Gate(t, "resolve") /\ UNCHANGED stdout
DoPrefixCheck(t) == Gate(t, "prefix") /\ UNCHANGED stdout
DoDirectoryCheck(t) == Gate(t, "isdir") /\ UNCHANGED stdout
DoBuildHeader(t) == Gate(t, "header") /\ UNCHANGED stdout
DoHeadStat(t) == Gate(t, "head") /\ UNCHANGED stdout
DoGetOpen(t) == Gate(t, "get") /\ UNCHANGED stdout
DoLogDownload(t) == Gate(t, "log") /\ stdout' = Append(stdout, LogLine(h[t]))
DoRespond(t) == Gate(t, "respond") /\ UNCHANGED stdout

\* Line 192: the write of the log line fails and the thread panics.
DoLogDownloadPanic(t) ==
    /\ mainpc = "serving"
    /\ h[t].pc = "log"
    /\ \E left \in {EmptyResponse(500), NoResponse} :
          h' = [h EXCEPT ![t] = Panicked(h[t], left)]
    /\ UNCHANGED <<fs, env, force, cwd, mainpc, exitCode, base_dir, accepted, stdout>>

\* The client of a request in flight goes away; a later request.respond
\* (lines 72-155) returns Err.
ClientGone(t) ==
    /\ mainpc = "serving"
    /\ h[t].pc \notin {"idle", "done"}
    /\ h[t].connected
    /\ h' = [h EXCEPT ![t].connected = FALSE]
    /\ UNCHANGED <<fs, env, force, cwd, mainpc, exitCode, base_dir, accepted, stdout>>

\* handle_request has returned: the thread ends.
ThreadExit(t) ==
    /\ mainpc = "serving"
    /\ h[t].pc = "done"
    /\ h' = [h EXCEPT ![t] = Idle]
    /\ UNCHANGED <<fs, env, force, cwd, mainpc, exitCode, base_dir, accepted, stdout>>

\* Any step of handle_request in thread t.
HandlerStep(t) ==
    \/ DoMethodCheck(t) \/ DoPathShapeCheck(t) \/ DoDecode(t)
    \/ DoSandboxResolve(t) \/ DoPrefixCheck(t) \/ DoDirectoryCheck(t)
    \/ DoBuildHeader(t) \/ DoHeadStat(t) \/ DoGetOpen(t)
    \/ DoLogDownload(t) \/ DoRespond(t) \/ ThreadExit(t)

\* Another process replaces the node at one of the places `slots` while the
\* server runs.
FsChange(slots) ==
    /\ mainpc = "serving"
    /\ \E slot \in slots :
          \E node \in Options(slot) \ {fs[slot]} :
             /\ fs[Parent(slot)].kind = "dir"
             /\ slot # Root
             /\ fs' = Replace(fs, slot, node)
    /\ UNCHANGED <<env, force, cwd, mainpc, exitCode, base_dir, accepted, h, stdout>>

\* The server started with --force or without in /b, the home directory,
\* clients that send every request of Urls, and other processes that change
\* what is in /b.
Init == Started({[HOME |-> Render(PB), USERPROFILE |-> Unset]}, {Render(PB)}, Threads)

Next ==
    \/ Startup
    \/ GuardRefuse
    \/ GuardPass
    \/ BindOk
    \/ BindFail
    \/ Interrupt
    \/ Accept(Urls, {Peer}, MaxRequests)
    \/ \E t \in DOMAIN h : DoMethodCheck(t)
    \/ \E t \in DOMAIN h : DoPathShapeCheck(t)
    \/ \E t \in DOMAIN h : DoDecode(t)
    \/ \E t \in DOMAIN h : DoSandboxResolve(t)
    \/ \E t \in DOMAIN h : DoPrefixCheck(t)
    \/ \E t \in DOMAIN h : DoDirectoryCheck(t)
    \/ \E t \in DOMAIN h : DoBuildHeader(t)
    \/ \E t \in DOMAIN h : DoHeadStat(t)
    \/ \E t \in DOMAIN h : DoGetOpen(t)
    \/ \E t \in DOMAIN h : DoLogDownload(t)
    \/ \E t \in DOMAIN h : DoRespond(t)
    \/ \E t \in DOMAIN h : ThreadExit(t)
    \/ FsChange({PBp, PBd, PBdp})

Spec == Init /\ [][Next]_vars

\* The server started in every directory and environment, clients that
\* send the requests of BootUrls, with and without a peer address, and
\* other processes that change /b/p.
InitBoot == Started(Environments, WorkDirs, Threads)

NextBoot ==
    \/ Startup
    \/ GuardRefuse
    \/ GuardPass
    \/ BindOk
    \/ BindFail
    \/ Interrupt
    \/ Accept(BootUrls, {Peer, Unset}, MaxRequests)
    \/ \E t \in DOMAIN h : DoMethodCheck(t)
    \/ \E t \in DOMAIN h : DoPathShapeCheck(t)
    \/ \E t \in DOMAIN h : DoDecode(t)
    \/ \E t \in DOMAIN h : DoSandboxResolve(t)
    \/ \E t \in DOMAIN h : DoPrefixCheck(t)
    \/ \E t \in DOMAIN h : DoDirectoryCheck(t)
    \/ \E t \in DOMAIN h : DoBuildHeader(t)
    \/ \E t \in DOMAIN h : DoHeadStat(t)
    \/ \E t \in DOMAIN h : DoGetOpen(t)
    \/ \E t \in DOMAIN h : DoLogDownload(t)
    \/ \E t \in DOMAIN h : DoRespond(t)
    \/ \E t \in DOMAIN h : ThreadExit(t)
    \/ FsChange({PBp})

SpecBoot == InitBoot /\ [][NextBoot]_vars

\* The server started with --force or without in /b, two requests of
\* LoadUrls in flight together, clients that go away before they are
\* answered, a standard output that fails, and other processes that change
\* /b/d/p.
InitLoad == Started({[HOME |-> Render(PB), USERPROFILE |-> Unset]}, {Render(PB)}, LoadThreads)

NextLoad ==
    \/ Startup
    \/ GuardRefuse
    \/ GuardPass
    \/ BindOk
    \/ BindFail
    \/ Interrupt
    \/ Accept(LoadUrls, {Peer}, Cardinality(LoadThreads))
    \/ \E t \in DOMAIN h : DoMethodCheck(t)
    \/ \E t \in DOMAIN h : DoPathShapeCheck(t)
    \/ \E t \in DOMAIN h : DoDecode(t)
    \/ \E t \in DOMAIN h : DoSandboxResolve(t)
    \/ \E t \in DOMAIN h : DoPrefixCheck(t)
    \/ \E t \in DOMAIN h : DoDirectoryCheck(t)
    \/ \E t \in DOMAIN h : DoBuildHeader(t)
    \/ \E t \in DOMAIN h : DoHeadStat(t)
    \/ \E t \in DOMAIN h : DoGetOpen(t)
    \/ \E t \in DOMAIN h : DoLogDownload(t)
    \/ \E t \in DOMAIN h : DoLogDownloadPanic(t)
    \/ \E t \in DOMAIN h : DoRespond(t)
    \/ \E t \in DOMAIN h : ThreadExit(t)
    \/ \E t \in DOMAIN h : ClientGone(t)
    \/ FsChange({PBdp})

SpecLoad == InitLoad /\ [][NextLoad]_vars

\* The server with two handler threads and the requests of LiveUrls.  The
\* accept loop and thread 2 run whenever they can; thread 1 gets no such
\* promise: it may sit in a filesystem call or in a send for ever.
NextLive ==
    \/ Startup
    \/ GuardRefuse
    \/ GuardPass
    \/ BindOk
    \/ BindFail
    \/ Interrupt
    \/ Accept(LiveUrls, {Peer}, Cardinality(LoadThreads))
    \/ \E t \in DOMAIN h : DoMethodCheck(t)
    \/ \E t \in DOMAIN h : DoPathShapeCheck(t)
    \/ \E t \in DOMAIN h : DoDecode(t)
    \/ \E t \in DOMAIN h : DoSandboxResolve(t)
    \/ \E t \in DOMAIN h : DoPrefixCheck(t)
    \/ \E t \in DOMAIN h : DoDirectoryCheck(t)
    \/ \E t \in DOMAIN h : DoBuildHeader(t)
    \/ \E t \in DOMAIN h : DoHeadStat(t)
    \/ \E t \in DOMAIN h : DoGetOpen(t)
    \/ \E t \in DOMAIN h : DoLogDownload(t)
    \/ \E t \in DOMAIN h : DoRespond(t)
    \/ \E t \in DOMAIN h : ThreadExit(t)

SpecLive ==
    /\ InitLoad
    /\ [][NextLive]_vars
    /\ WF_vars(Accept(LiveUrls, {Peer}, Cardinality(LoadThreads)))
    /\ WF_vars(HandlerStep(2))

----------------------------------------------------------------------------
(* Properties. *)

GetOrHead(r) == r.method \in {"GET", "HEAD"}

\* p lies in the directory `base` or below it, component by component.
Under(p, base) ==
    /\ Len(base) <= Len(p)
    /\ \A i \in 1..Len(base) : p[i] = base[i]

\* The trace holds the operation op.
Did(r, op) == \E i \in 1..Len(r.trace) : r.trace[i] = op

TouchedFs(r) ==
    \E op \in {"canonicalize", "is_dir", "metadata", "open"} : Did(r, op)

\* C1: a GET or HEAD request whose path resolves (through `..` or through a
\* symbolic link) to a place outside the base directory goes no further than
\* the prefix check: it is answered 403 with an empty body, and nothing is
\* stat'd or opened for it.
C1_EscapeIs403 ==
    \A t \in DOMAIN h :
        LET r == h[t]
        IN  (GetOrHead(r) /\ r.candidate # NoPath /\ ~Under(r.candidate, r.base))
                => /\ r.pc \in {"prefix", "done"}
                   /\ r.pc = "done" => r.resp = EmptyResponse(403)
                   /\ ~Did(r, "is_dir") /\ ~Did(r, "metadata") /\ ~Did(r, "open")
                   /\ r.file = NoFile

\* C1, reached: GET /d with /b/d a symbolic link to /b2 has been answered 403.
C1_Witness ==
    \E t \in DOMAIN h :
        /\ h[t].pc = "done"
        /\ h[t].url = <<"/", "d", "/", "p">>
        /\ h[t].base = PB
        /\ h[t].candidate = PB2p
        /\ h[t].resp.status = 403

\* C1, the `..` case reached: GET /../s has been answered 403.
C1_DotDotReached ==
    \E t \in DOMAIN h :
        /\ h[t].pc = "done"
        /\ h[t].url = <<"/", ".", ".", "/", "s">>
        /\ h[t].candidate = PS
        /\ h[t].resp.status = 403

\* A component that canonicalization leaves in no path.
Special(c) == c = <<>> \/ c = <<".">> \/ c = <<".", ".">>

C3_OnlyBaseFilesServed ==
    \A t \in DOMAIN h :
        (h[t].pc = "done" /\ h[t].resp.status = 200)
            => /\ Under(h[t].resp.source, h[t].base)
               /\ h[t].resp.source # h[t].base

\* C4: a request whose method is neither GET nor HEAD is answered 405 with
\* an empty body at the first gate: it never reaches a later gate, so no
\* filesystem call is made and no log line is written for it.
C4_OtherMethodsAre405 ==
    \A t \in DOMAIN h :
        LET r == h[t]
        IN  (r.pc # "idle" /\ ~GetOrHead(r))
                => /\ r.pc \in {"method", "done"}
                   /\ r.pc = "done" => r.resp = EmptyResponse(405)
                   /\ ~TouchedFs(r)
                   /\ ~Did(r, "log")

\* C4, reached: POST /p, an existing file, has been answered 405.
C4_Witness ==
    \E t \in DOMAIN h :
        /\ h[t].pc = "done"
        /\ h[t].method = "POST"
        /\ h[t].url = <<"/", "p">>
        /\ fs[PBp].kind = "file"
        /\ h[t].resp.status = 405

\* The URL path (the URL before its query) is `/`, is empty or ends in `/`.
DirectoryShaped(url) ==
    LET p == UrlPath(url)
    IN  p = <<"/">> \/ p = <<>> \/ p[Len(p)] = "/"

\* C5, as claimed: every request, whatever its method, whose URL path is
\* `/`, is empty or ends in `/` is answered 403 with an empty body.
C5_AnyMethodSlashIs403 ==
    \A t \in DOMAIN h :
        (h[t].pc = "done" /\ DirectoryShaped(h[t].url))
            => h[t].resp = EmptyResponse(403)

\* C5, amended: every GET or HEAD request whose URL path is `/`, is empty or
\* ends in `/` is answered 403 with an empty body before the filesystem is
\* looked at, whatever the filesystem holds there.
C5_GetHeadSlashIs403 ==
    \A t \in DOMAIN h :
        LET r == h[t]
        IN  (GetOrHead(r) /\ DirectoryShaped(r.url))
                => /\ r.pc \in {"method", "shape", "done"}
                   /\ r.pc = "done" => r.resp = EmptyResponse(403)
                   /\ ~TouchedFs(r)

\* C5, reached: GET /p/ has been answered 403 while /b/p is a regular file.
C5_Witness ==
    \E t \in DOMAIN h :
        /\ h[t].pc = "done"
        /\ h[t].method = "GET"
        /\ h[t].url = <<"/", "p", "/">>
        /\ fs[PBp].kind = "file"
        /\ h[t].resp = EmptyResponse(403)

\* The URL path holds the escape %00.
HasNulEscape(url) ==
    LET p == UrlPath(url)
    IN  \E i \in 1..(Len(p) - 2) : SubSeq(p, i, i + 2) = <<"%", "0", "0">>

\* C6, as claimed: every request whose path holds %00 is answered 400 with
\* an empty body, and the filesystem is never looked at for it.
C6_AnyNulIs400 ==
    \A t \in DOMAIN h :
        LET r == h[t]
        IN  HasNulEscape(r.url)
                => /\ r.pc = "done" => r.resp = EmptyResponse(400)
                   /\ ~TouchedFs(r)

\* C6, amended: a GET or HEAD request whose path holds %00 and passes the
\* path-shape check (it does not end in `/`) is answered 400 with an empty
\* body; and no request whose path holds %00, whatever its method or shape,
\* gets as far as canonicalize or any other filesystem call.
C6_GetHeadNulIs400 ==
    \A t \in DOMAIN h :
        LET r == h[t]
        IN  HasNulEscape(r.url)
                => /\ r.pc \in {"method", "shape", "decode", "done"}
                   /\ ~TouchedFs(r)
                   /\ (r.pc = "done" /\ GetOrHead(r) /\ ~DirectoryShaped(r.url))
                          => r.resp = EmptyResponse(400)

\* C6, reached: GET /p/%00 has been answered 400.
C6_Witness ==
    \E t \in DOMAIN h :
        /\ h[t].pc = "done"
        /\ h[t].method = "GET"
        /\ h[t].url = <<"/", "p", "/", "%", "0", "0">>
        /\ h[t].resp = EmptyResponse(400)
        /\ ~TouchedFs(h[t])

\* The place the decoded relative path of the handler r, which is at the
\* resolve gate, names on the filesystem f.
Target(f, r) == Canonicalize(f, Join(r.base, r.rel))

\* That place is a regular file below the base directory.
NamesFileUnderBase(f, r) ==
    /\ Target(f, r).ok
    /\ Under(Target(f, r).path, r.base)
    /\ f[Target(f, r).path].kind = "file"

FilenameHeader(name) == <<"attachment; filename=", "\"">> \o name \o <<"\"">>

HomeText == IF env.HOME # Unset THEN env.HOME ELSE env.USERPROFILE

RootOrHome ==
    \/ base_dir = Root
    \/ /\ HomeText # Unset
       /\ PathBufFrom(HomeText) = [abs |-> TRUE, comps |-> base_dir]

NothingServed ==
    /\ accepted = 0
    /\ stdout = <<>>
    /\ \A t \in DOMAIN h : h[t] = Idle

\* C9: started without --force in the root or in the home directory, the
\* process leaves the guard by exiting with a status that is not 0, is never
\* bound or serving, and handles no request; with --force, or in any other
\* directory, the guard lets main go on to bind its socket.
C9_DangerZoneGuard ==
    /\ [](  (mainpc \notin {"start", "guard"} /\ ~force /\ RootOrHome)
                => (mainpc = "exited" /\ exitCode # 0 /\ NothingServed)  )
    /\ [][ mainpc = "guard"
              => IF ~force /\ RootOrHome
                 THEN mainpc' = "exited" /\ exitCode' # 0
                 ELSE mainpc' = "bind" ]_vars

\* C9, reached: started in /b without --force, HOME not set and USERPROFILE
\* /b, the process has exited with status 1 and has served nothing.
C9_Witness ==
    /\ mainpc = "exited"
    /\ exitCode = 1
    /\ ~force
    /\ base_dir = PB
    /\ env.HOME = Unset
    /\ env.USERPROFILE = Render(PB)
    /\ NothingServed

\* C9, the other way reached: started in the root with --force, the server
\* is serving a request.
C9_ForcedReached ==
    /\ mainpc = "serving"
    /\ force
    /\ base_dir = Root
    /\ \E t \in DOMAIN h : h[t].pc = "done" /\ h[t].resp.status = 200

\* The filesystems that differ from f in one place outside the directory base.
OutsideVariants(f, base) ==
    UNION { {Replace(f, s, n) : n \in Options(s)} :
            s \in {x \in Slots \ {Root} :
                      ~Under(x, base) /\ f[Parent(x)].kind = "dir"} }

Rejection(resp) == resp.status \in {403, 404} /\ resp = EmptyResponse(resp.status)

C11_NoDirectoryIsServed ==
    \A t \in DOMAIN h :
        (GetOrHead(h[t]) /\ h[t].pc \in {"log", "respond", "done"})
            => h[t].file.kind # "dir"

\* C11, with nothing else touching the filesystem: a request whose decoded
\* path names a directory below the base directory, `d%2F` included, is
\* answered 403 with an empty body and nothing is stat'd or opened for it.
C11_ChecksComposeOnStableFs ==
    \A t \in DOMAIN h :
        LET r == h[t]
            out == RunFrom(fs, r)
        IN  (r.pc = "resolve" /\ Target(fs, r).ok /\ Under(Target(fs, r).path, r.base)
                /\ fs[Target(fs, r).path].kind = "dir")
                => /\ out.resp = EmptyResponse(403)
                   /\ ~Did(out, "metadata") /\ ~Did(out, "open")

\* C11_ChecksComposeOnStableFs, reached: GET /d%2F with /b/d a directory is
\* at the resolve gate.
C11_StableReached ==
    \E t \in DOMAIN h :
        /\ h[t].pc = "resolve"
        /\ h[t].url = <<"/", "d", "%", "2", "F">>
        /\ h[t].rel = <<"d", "/">>
        /\ fs[PBd] = Dir

\* C12: the text line 100 joins from the base directory and the decoded
\* relative path, before it is canonicalized, starts with the base directory.
C12_JoinKeepsBase ==
    \A t \in DOMAIN h :
        h[t].pc = "resolve"
            => IsPrefix(Render(h[t].base) \o <<"/">>, Join(h[t].base, h[t].rel))

\* C12, with the relative paths that do not start with `/`: those are joined
\* below the base directory.
C12_RelativeJoinKeepsBase ==
    \A t \in DOMAIN h :
        (h[t].pc = "resolve" /\ h[t].rel[1] # "/")
            => Join(h[t].base, h[t].rel) = Render(h[t].base) \o <<"/">> \o h[t].rel

\* What a request asks for on the filesystem f, from its URL alone.
Asked(f, r) == Canonicalize(f, Join(r.base, decode_path(TrimStart(UrlPath(r.url)))))

\* The status the earliest failing gate gives the request r on the
\* filesystem f, 200 when no gate fails; each condition is taken by itself.
FirstFailure(f, r) ==
    IF ~GetOrHead(r) THEN 405
    ELSE IF DirectoryShaped(r.url) THEN 403
    ELSE IF Contains(decode_path(TrimStart(UrlPath(r.url))), NUL) THEN 400
    ELSE IF ~Asked(f, r).ok THEN 404
    ELSE IF ~Under(Asked(f, r).path, r.base) THEN 403
    ELSE IF f[Asked(f, r).path].kind = "dir" THEN 403
    ELSE 200

\* The operations handle_request performs up to the gate that decides.
OperationsUpTo(f, r) ==
    IF ~GetOrHead(r) \/ DirectoryShaped(r.url)
          \/ Contains(decode_path(TrimStart(UrlPath(r.url))), NUL)
    THEN <<"respond">>
    ELSE IF ~Asked(f, r).ok \/ ~Under(Asked(f, r).path, r.base)
    THEN <<"canonicalize", "respond">>
    ELSE IF f[Asked(f, r).path].kind = "dir"
    THEN <<"canonicalize", "is_dir", "respond">>
    ELSE <<"canonicalize", "is_dir", IF r.method = "HEAD" THEN "metadata" ELSE "open",
           "log", "respond">>

\* The moves of a handler thread from gate to gate.
GateOrder ==
    { <<"idle", "method">>, <<"method", "shape">>, <<"shape", "decode">>,
      <<"decode", "resolve">>, <<"resolve", "prefix">>, <<"prefix", "isdir">>,
      <<"isdir", "header">>, <<"header", "head">>, <<"header", "get">>,
      <<"head", "log">>, <<"get", "log">>, <<"log", "respond">>,
      <<"respond", "done">>, <<"done", "idle">> }

\* C13: the gates run in the order method, path shape, decode, canonicalize,
\* prefix, directory, HEAD or GET.  A request that fails several gates (the
\* filesystem left alone) gets the status of the earliest one, 405 before the
\* shape's 403 before 400 before 404 before the escape's 403 before the
\* directory's 403, and nothing is done for it after the gate that rejects
\* it; a thread moves from a gate to the next one or to its end, never back,
\* and stays at its end until it exits.
C13_FirstFailingGateDecides ==
    /\ [](\A t \in DOMAIN h :
             LET out == RunFrom(fs, h[t])
             IN  h[t].pc = "method"
                    => /\ out.resp.status = FirstFailure(fs, h[t])
                       /\ out.trace = OperationsUpTo(fs, h[t]))
    /\ [][\A t \in DOMAIN h :
             \/ h'[t].pc = h[t].pc
             \/ <<h[t].pc, h'[t].pc>> \in GateOrder
             \/ h[t].pc \in {"method", "shape", "decode", "resolve", "prefix",
                            "isdir", "head", "get"} /\ h'[t].pc = "done"
             \/ mainpc' = "exited" /\ h'[t].pc = "idle"]_vars

\* C13, reached: POST /%00/, which fails the method gate, the shape gate and
\* the NUL check at once, has been answered 405 and nothing else was done.
C13_Witness ==
    \E t \in DOMAIN h :
        /\ h[t].pc = "done"
        /\ h[t].method = "POST"
        /\ h[t].url = <<"/", "%", "0", "0", "/">>
        /\ HasNulEscape(h[t].url) /\ DirectoryShaped(h[t].url)
        /\ h[t].resp = EmptyResponse(405)
        /\ h[t].trace = <<"respond">>

\* C13, reached as well: GET /../%00, a path with a NUL that names nothing,
\* has been answered 400.
C13_NulBeforeMissing ==
    \E t \in DOMAIN h :
        /\ h[t].pc = "done"
        /\ h[t].method = "GET"
        /\ h[t].url = <<"/", ".", ".", "/", "%", "0", "0">>
        /\ h[t].resp = EmptyResponse(400)

\* The number of times the operation op is in the trace.
RECURSIVE Count(_, _)
Count(trace, op) ==
    IF trace = <<>> THEN 0
    ELSE (IF Head(trace) = op THEN 1 ELSE 0) + Count(Tail(trace), op)

\* C14: a handler that has ended has called request.respond exactly once,
\* with 200 or with an empty body and one of 400, 403, 404, 405; and no
\* handler in flight has called it yet.
C14_ExactlyOneResponse ==
    \A t \in DOMAIN h :
        LET r == h[t]
        IN  /\ r.pc = "done"
                => /\ Count(r.trace, "respond") = 1
                   /\ r.resp.status \in {200, 400, 403, 404, 405}
                   /\ r.resp.status # 200 => r.resp = EmptyResponse(r.resp.status)
            /\ r.pc # "done" => Count(r.trace, "respond") = 0

\* C14, without the failure of the log write: the same, for the handlers
\* that have not panicked.
C14_ExactlyOneResponseUnlessPanic ==
    \A t \in DOMAIN h :
        LET r == h[t]
        IN  /\ (r.pc = "done" /\ ~Did(r, "panic"))
                => /\ Count(r.trace, "respond") = 1
                   /\ r.resp.status \in {200, 400, 403, 404, 405}
                   /\ r.resp.status # 200 => r.resp = EmptyResponse(r.resp.status)
            /\ r.pc # "done" => Count(r.trace, "respond") = 0

\* The place of the first `op` in the trace, 0 when there is none.
RECURSIVE Position(_, _)
Position(trace, op) ==
    IF trace = <<>> THEN 0
    ELSE IF Head(trace) = op THEN 1
    ELSE IF Position(Tail(trace), op) = 0 THEN 0
    ELSE 1 + Position(Tail(trace), op)

\* The log lines on standard output that are the line of the handler r.
Entries(out, r) == {i \in 1..Len(out) : out[i] = LogLine(r)}

\* C15: a handler that has answered 200 has written one log line, before it
\* called respond; a handler that has answered 400, 403, 404 or 405 has
\* written none.  The line is on standard output, with the client's address
\* and the canonical path of the file, which is an absolute path below the
\* base directory whatever the request path was; and standard output holds
\* one line for each log_download that was run, no more.
C15_OneLogLinePer200 ==
    /\ \A t \in DOMAIN h :
          LET r == h[t]
          IN  /\ (r.pc = "done" /\ r.resp.status = 200)
                    => /\ Count(r.trace, "log") = 1
                       /\ Position(r.trace, "log") < Position(r.trace, "respond")
                       /\ Entries(stdout, r) # {}
                       /\ LogLine(r).file = Render(r.candidate)
                       /\ Under(r.candidate, r.base)
                       /\ \A i \in 1..Len(r.candidate) : ~Special(r.candidate[i])
              /\ (r.pc = "done" /\ r.resp.status \in {400, 403, 404, 405})
                    => Count(r.trace, "log") = 0
              /\ r.pc = "done" => (r.resp.status = 200 <=> Count(r.trace, "log") = 1)
              /\ Count(r.trace, "log") <= 1
    /\ Len(stdout) <= accepted
    /\ \A i \in 1..Len(stdout) : stdout[i].file[1] = "/"

\* C15, reached: GET /d%2Fp has been answered 200 and its log line names
\* /b/d/p, while a request answered 404 has left no line: standard output
\* holds one line for the two requests.
C15_Witness ==
    \E t, u \in DOMAIN h :
        /\ h[t].pc = "done" /\ h[t].resp.status = 200
        /\ h[t].url = <<"/", "d", "%", "2", "F", "p">>
        /\ h[u].pc = "done" /\ h[u].resp = EmptyResponse(404)
        /\ stdout = <<[ip |-> Peer, file |-> Render(PBdp)]>>

\* C16: a handler whose file was stat'd or opened, and which therefore went
\* on to write its log line, has answered 200 with the Content-Disposition
\* header it built (and the file's bytes, for GET) by the time it ends,
\* whether or not the log write failed.
C16_LogFailureKeepsResponse ==
    \A t \in DOMAIN h :
        LET r == h[t]
        IN  (r.pc = "done" /\ r.file # NoFile)
                => /\ r.resp.status = 200
                   /\ r.resp.disposition = r.disposition
                   /\ r.method = "GET" => r.resp.body = r.file.data

\* C16, with the log write not failing: the same for the handlers that have
\* not panicked.
C16_ResponseAfterLogWritten ==
    \A t \in DOMAIN h :
        LET r == h[t]
        IN  (r.pc = "done" /\ r.file # NoFile /\ ~Did(r, "panic"))
                => /\ r.resp.status = 200
                   /\ r.resp.disposition = r.disposition
                   /\ r.method = "GET" => r.resp.body = r.file.data

\* What decode_path has to give for the relative paths of LoadUrls: an escape
\* is decoded once (`%2500` is `%00`, three characters, not NUL), a byte that
\* is no UTF-8 becomes U+FFFD, and what is no escape stays as it is.
Decoded ==
    (<<"p">> :> <<"p">>)
    @@ (<<"d">> :> <<"d">>)
    @@ (<<"d", "%", "2", "F", "p">> :> <<"d", "/", "p">>)
    @@ (<<"%", "0", "0">> :> <<NUL>>)
    @@ (<<"%", "2", "5", "0", "0">> :> <<"%", "0", "0">>)
    @@ (<<"%", "F", "F">> :> <<REPL>>)
    @@ (<<"p", "%", "2">> :> <<"p", "%", "2">>)
    @@ (<<"p", "%">> :> <<"p", "%">>)
    @@ (<<"%", "q", "q">> :> <<"%", "q", "q">>)

\* C17: decode_path gives a text for every input, the input itself when it
\* holds no `%`, and for an input with `%` the text decoded once;  the decode
\* gate rejects (with 400) exactly the paths whose decoded text holds NUL,
\* which are the paths that hold the escape %00, and every other GET or HEAD
\* request that is past the path-shape check, malformed escapes included,
\* goes on to canonicalize and is not answered 400.
C17_DecodeNeverRejects ==
    \A t \in DOMAIN h :
        LET r == h[t]
            out == Decode(r)
        IN  /\ r.pc = "decode"
                => /\ r.rel \in DOMAIN Decoded
                   /\ decode_path(r.rel) = Decoded[r.rel]
                   /\ ~Contains(r.rel, "%") => decode_path(r.rel) = r.rel
                   /\ out.pc \in {"resolve", "done"}
                   /\ out.pc = "resolve" => out.rel = Decoded[r.rel]
                   /\ out.pc = "done" <=> Contains(Decoded[r.rel], NUL)
                   /\ out.pc = "done" <=> HasNulEscape(r.url)
                   /\ out.pc = "done" => out.resp = EmptyResponse(400)
            /\ (r.pc = "done" /\ GetOrHead(r) /\ ~DirectoryShaped(r.url))
                => /\ r.resp.status = 400 <=> HasNulEscape(r.url)
                   /\ ~HasNulEscape(r.url) => Did(r, "canonicalize")

\* C17, reached: GET /%2500 has been decoded to the text `%00`, passed to
\* canonicalize and answered 404, and GET /%FF likewise with U+FFFD.
C17_Witness ==
    \E t, u \in DOMAIN h :
        /\ h[t].pc = "done" /\ h[t].method = "GET"
        /\ h[t].url = <<"/", "%", "2", "5", "0", "0">>
        /\ h[t].rel = <<"%", "0", "0">>
        /\ h[t].trace = <<"canonicalize", "respond">>
        /\ h[t].resp = EmptyResponse(404)
        /\ h[u].pc = "done" /\ h[u].method = "GET"
        /\ h[u].url = <<"/", "%", "F", "F">>
        /\ h[u].rel = <<REPL>>
        /\ h[u].resp = EmptyResponse(404)

\* A handler thread sits in a call that can block: a filesystem call or the
\* send of its response.
Blocked(r) == r.pc \in {"resolve", "isdir", "head", "get", "respond"}

\* C18: whatever thread 1 does, and if it sits in a filesystem call or in a
\* send for ever, the accept loop can take the next request whenever there
\* is one and does take it, and the request thread 2 is given is answered
\* (unless the process is ended first).
C18_AcceptIsNeverBlocked ==
    /\ []((mainpc = "serving" /\ accepted < Cardinality(LoadThreads))
             => ENABLED Accept(LiveUrls, {Peer}, Cardinality(LoadThreads)))
    /\ (mainpc = "serving")
          ~> (accepted = Cardinality(LoadThreads) \/ mainpc = "exited")
    /\ (h[2].pc = "method")
          ~> ((h[2].pc = "done" /\ h[2].sent = "ok") \/ mainpc = "exited")

\* C18, reached: thread 1 is still in File::open for its request while the
\* request taken after it has been answered by thread 2.
C18_Witness ==
    /\ h[1].pc = "get" /\ Blocked(h[1])
    /\ accepted = 2
    /\ h[2].pc = "done" /\ h[2].sent = "ok" /\ h[2].resp.status = 200

\* C19: every handler in flight has the base directory main computed at its
\* start, and keeps it; base_dir, once computed, never changes; no step of
\* the accept loop or of a handler, alone or interleaved with others,
\* changes the filesystem (other processes do), the environment, or the
\* working directory: a handler step changes its own thread's record and,
\* at log_download, standard output, and nothing else.
C19_HandlerChangesNothingElse ==
    /\ [](\A t \in DOMAIN h : h[t].pc # "idle" => h[t].base = base_dir)
    /\ [][/\ base_dir # NoPath => base_dir' = base_dir
          /\ env' = env /\ cwd' = cwd /\ force' = force
          /\ fs' # fs => (h' = h /\ stdout' = stdout /\ accepted' = accepted
                            /\ mainpc' = mainpc)
          /\ stdout' # stdout
                => \E t \in DOMAIN h :
                      /\ h[t].pc = "log"
                      /\ stdout' = Append(stdout, LogLine(h[t]))
          /\ \A t \in DOMAIN h :
                (h[t].pc # "idle" /\ h'[t].pc # "idle")
                    => /\ h'[t].base = h[t].base
                       /\ h'[t].method = h[t].method
                       /\ h'[t].url = h[t].url]_vars

\* C19, reached: two requests have been handled interleaved, both with the
\* base directory /b, both answered 200 and logged, and the filesystem is as
\* it was at the start.
C19_Witness ==
    /\ base_dir = PB
    /\ fs = InitialFs
    /\ Len(stdout) = 2
    /\ \A t \in DOMAIN h :
          h[t].pc = "done" /\ h[t].base = PB /\ h[t].resp.status = 200

\* The send of the response the handler r passed to respond has failed.
SendFailed(r) == r.pc = "done" /\ Did(r, "respond") /\ r.sent = "err"

\* C20: a handler whose send failed has called respond once (no retry) and
\* has not panicked; the process is still serving, with no exit status; the
\* accept loop can take the next request if there is one; and the next thing
\* the thread does is end, as a thread whose send succeeded does.
C20_SendFailureIsSwallowed ==
    /\ [](\A t \in DOMAIN h :
             SendFailed(h[t])
                 => /\ Count(h[t].trace, "respond") = 1
                    /\ ~Did(h[t], "panic")
                    /\ mainpc = "serving" /\ exitCode = -1
                    /\ accepted < Cardinality(LoadThreads)
                          => ENABLED Accept(LoadUrls, {Peer}, Cardinality(LoadThreads)))
    /\ [][\A t \in DOMAIN h :
             (SendFailed(h[t]) /\ h'[t] # h[t]) => h'[t] = Idle]_vars

\* C20, reached: the send of a 200 failed in thread 1, the client being
\* gone, and the server has taken another request and answered it.
C20_Witness ==
    /\ SendFailed(h[1]) /\ ~h[1].connected /\ h[1].resp.status = 200
    /\ h[2].pc = "done" /\ h[2].sent = "ok"
    /\ mainpc = "serving"

====
